---- MODULE Spec2Model ----
(***************************************************************************)
(* Conversation engine, tool dispatch and run_agent delegation of the      *)
(* code-editing agent.                                                     *)
(*                                                                         *)
(* The loop body of the engine (request, append, dispatch or stop), the    *)
(* tool handlers and processToolCalls are translated from src/main.go.     *)
(* DriveConversation's iteration ceiling and return values and the         *)
(* run_agent handler are exercised by the tests but their code is not in   *)
(* the source tree; they are modelled from the specification.              *)
(*                                                                         *)
(* A text is a sequence of string pieces: fmt.Sprintf("Error: %v", e) is   *)
(* <<"Error: ", e>>, so "starts with" and "contains" can be stated.        *)
(***************************************************************************)
EXTENDS Naturals, Sequences, FiniteSets, TLC

\* ------------------------------------------------------------------ bounds

\* Tool calls, over one run, other than the plain one (a well-formed
\* read_file of an existing file). Each run_agent call is one of them, so
\* this also bounds the nesting of engine invocations.
MaxVaried == 1

\* Interrupt signals sent to the process over one run.
MaxSignals == 3

\* Engine invocations nested in one another, where every level delegates.
MaxDepth == 11

\* File tool calls carried by one assistant turn.
MaxCalls == 3

\* ------------------------------------------------------------- vocabulary

ChatMessageRoleUser == "user"
ChatMessageRoleAssistant == "assistant"
ChatMessageRoleTool == "tool"

ToolTypeFunction == "function"

NoCalls == << >>

\* A message of the conversation (openai.ChatCompletionMessage).
Message(role, text, calls, id) ==
    [role |-> role, text |-> text, tool_calls |-> calls, tool_call_id |-> id]

\* The argument payload of a call: the raw JSON text, either malformed or an
\* object with the fields it carries (an absent field is the empty string).
Arguments(json, path, content, recursive, task) ==
    [json |-> json, path |-> path, content |-> content,
     recursive |-> recursive, task |-> task]

ToolCall(id, type, name, args) ==
    [id |-> id, type |-> type, name |-> name, args |-> args]

NoArgs == Arguments("object", "", "", FALSE, "")
BadArgs == Arguments("malformed", "", "", FALSE, "")

\* ------------------------------------------------------------ file system

Missing == "<missing>"
FilePaths == {"a.txt", "d/b.txt", "x/y/c.txt"}

\* filepath.Dir of the paths the model uses.
Dir(path) ==
    CASE path = "d/b.txt" -> "d"
      [] path = "x/y/c.txt" -> "x/y"
      [] OTHER -> "."

\* The directories os.MkdirAll makes sure of: the directory and every
\* directory above it.
MkdirAllCreates(dir) ==
    CASE dir = "x/y" -> {"x", "x/y"}
      [] dir = "." -> {}
      [] OTHER -> {dir}

\* The directories os.MkdirAll has made when it fails part of the way.
MkdirAllPartial(dir) == IF dir = "x/y" THEN {"x"} ELSE {}

\* ------------------------------------------------------------------ state

VARIABLES
    stack,      \* engine invocations in progress, outermost first
    fs,         \* file path -> content, or Missing
    dirs,       \* directories that exist
    varied,     \* tool calls other than the plain one returned so far
    lastSub,    \* the nested engine that just finished, its call, what it
                \* returned and the depth of its parent; kept until the tool
                \* turns of an iteration are appended
    im,         \* the InputManager: its channels, its interrupt state, its
                \* listener task and the signals delivered to it
    input,      \* the foreground flow at the InputManager: the GetInput call
                \* in progress, its reader tasks and what it returned
    run         \* the driver loop (Run): where it is, what it returned and
                \* what was reported to the user

\* What the engine reads and writes, and what the input layer does.
engineVars == <<stack, fs, dirs, varied, lastSub>>
inputVars == <<im, input>>

vars == <<stack, fs, dirs, varied, lastSub, im, input, run>>

\* --------------------------------------------------------------- handlers

createErrorResponse(toolCallID, errorMsg) ==
    Message(ChatMessageRoleTool, errorMsg, NoCalls, toolCallID)

\* json.Unmarshal into a tool input struct: an error for malformed JSON.
UnmarshalFails(args) == args.json = "malformed"

InvalidArguments == <<"Invalid arguments: ", "json syntax error">>

\* handleReadFile without its check of the decoding error.
handleReadFileNoDecodeCheck(toolCall) ==
    IF toolCall.args.path \notin FilePaths \/ fs[toolCall.args.path] = Missing
    THEN createErrorResponse(toolCall.id,
             <<"Error reading file: ", "open", toolCall.args.path>>)
    ELSE Message(ChatMessageRoleTool, <<fs[toolCall.args.path]>>, NoCalls, toolCall.id)

\* handleReadFile answering a failed read with an empty text.
handleReadFileSilent(toolCall) ==
    IF UnmarshalFails(toolCall.args)
    THEN createErrorResponse(toolCall.id, InvalidArguments)
    ELSE IF toolCall.args.path \notin FilePaths \/ fs[toolCall.args.path] = Missing
    THEN Message(ChatMessageRoleTool, << >>, NoCalls, toolCall.id)
    ELSE Message(ChatMessageRoleTool, <<fs[toolCall.args.path]>>, NoCalls, toolCall.id)

handleReadFile(toolCall) ==
    IF UnmarshalFails(toolCall.args)
    THEN createErrorResponse(toolCall.id, InvalidArguments)
    ELSE IF toolCall.args.path \notin FilePaths \/ fs[toolCall.args.path] = Missing
    THEN createErrorResponse(toolCall.id,
             <<"Error reading file: ", "open", toolCall.args.path>>)
    ELSE Message(ChatMessageRoleTool, <<fs[toolCall.args.path]>>, NoCalls, toolCall.id)

\* The names os.ReadDir / filepath.Walk yield for a directory, one per line.
Entries(path, recursive) ==
    CASE path = "." ->
           (IF fs["a.txt"] # Missing THEN <<"a.txt\n">> ELSE << >>)
           \o (IF "d" \in dirs THEN <<"d\n">> ELSE << >>)
           \o (IF recursive /\ fs["d/b.txt"] # Missing THEN <<"d/b.txt\n">> ELSE << >>)
           \o (IF "x" \in dirs THEN <<"x\n">> ELSE << >>)
           \o (IF recursive /\ "x/y" \in dirs THEN <<"x/y\n">> ELSE << >>)
           \o (IF recursive /\ fs["x/y/c.txt"] # Missing THEN <<"x/y/c.txt\n">> ELSE << >>)
      [] path = "x" ->
           (IF "x/y" \in dirs THEN <<"y\n">> ELSE << >>)
           \o (IF recursive /\ fs["x/y/c.txt"] # Missing THEN <<"y/c.txt\n">> ELSE << >>)
      [] path = "x/y" ->
           IF fs["x/y/c.txt"] # Missing THEN <<"c.txt\n">> ELSE << >>
      [] OTHER ->
           IF fs["d/b.txt"] # Missing THEN <<"b.txt\n">> ELSE << >>

handleRecursiveListDir(toolCallID, dirPath) ==
    IF dirPath \notin dirs
    THEN createErrorResponse(toolCallID,
             <<"Error walking directory: ", "lstat", dirPath>>)
    ELSE Message(ChatMessageRoleTool, Entries(dirPath, TRUE), NoCalls, toolCallID)

handleListDir(toolCall) ==
    IF UnmarshalFails(toolCall.args)
    THEN createErrorResponse(toolCall.id, InvalidArguments)
    ELSE IF toolCall.args.recursive
    THEN handleRecursiveListDir(toolCall.id, toolCall.args.path)
    ELSE IF toolCall.args.path \notin dirs
    THEN createErrorResponse(toolCall.id,
             <<"Error reading directory: ", "open", toolCall.args.path>>)
    ELSE Message(ChatMessageRoleTool, Entries(toolCall.args.path, FALSE),
                 NoCalls, toolCall.id)

\* What the operating system can answer to handleWriteFile's calls.
WriteOutcomes(toolCall) ==
    IF UnmarshalFails(toolCall.args) THEN {"invalid"}
    ELSE IF toolCall.args.path \notin FilePaths THEN {"write_fail"}
    ELSE {"ok", "write_fail"}
         \cup (IF Dir(toolCall.args.path) # "." THEN {"mkdir_fail"} ELSE {})
         \cup (IF MkdirAllPartial(Dir(toolCall.args.path)) # {}
               THEN {"mkdir_partial"} ELSE {})

handleWriteFile(toolCall, outcome) ==
    CASE outcome = "invalid" ->
           createErrorResponse(toolCall.id, InvalidArguments)
      [] outcome \in {"mkdir_fail", "mkdir_partial"} ->
           createErrorResponse(toolCall.id,
               <<"Error creating directory: ", "mkdir", Dir(toolCall.args.path)>>)
      [] outcome = "write_fail" ->
           createErrorResponse(toolCall.id,
               <<"Error writing file: ", "open", toolCall.args.path>>)
      [] OTHER ->
           Message(ChatMessageRoleTool, <<"File written successfully.">>,
                   NoCalls, toolCall.id)

\* Only the directory of the file made, none of those above it.
DirsAfterWriteParentOnly(toolCall, outcome) ==
    IF outcome \in {"ok", "write_fail"} /\ ~UnmarshalFails(toolCall.args)
    THEN dirs \cup {Dir(toolCall.args.path)}
    ELSE dirs

\* The directories and files after handleWriteFile with that outcome.
DirsAfterWrite(toolCall, outcome) ==
    IF outcome \in {"ok", "write_fail"} /\ ~UnmarshalFails(toolCall.args)
    THEN dirs \cup MkdirAllCreates(Dir(toolCall.args.path))
    ELSE IF outcome = "mkdir_partial"
    THEN dirs \cup MkdirAllPartial(Dir(toolCall.args.path))
    ELSE dirs

\* A file that exists left as it is.
FsAfterWriteKeepsExisting(toolCall, outcome) ==
    IF outcome = "ok" /\ fs[toolCall.args.path] = Missing
    THEN [fs EXCEPT ![toolCall.args.path] = toolCall.args.content]
    ELSE fs

FsAfterWrite(toolCall, outcome) ==
    IF outcome = "ok"
    THEN [fs EXCEPT ![toolCall.args.path] = toolCall.args.content]
    ELSE fs

\* --------------------------------------------------------------- registry

\* The handlers setupTools registers in the source tree.
setupTools == {"read_file", "list_dir", "write_to_file"}

\* The registry the tests expect: setupTools plus the delegation tool.
toolHandlers == setupTools \cup {"run_agent"}

\* ----------------------------------------------------------------- engine

\* Iteration ceiling of one engine invocation.
maxIterations == 10

NoError == [kind |-> "none", iteration |-> 0]

\* The error DriveConversation returns for a failed request: the transport's
\* error wrapped with the iteration it failed at.
WrapError(i) == [kind |-> "transport", iteration |-> i]

\* One engine invocation at its start: the turn sequence it was given, no
\* iteration done, about to issue its first request.
NewEngine(initial) ==
    [initial |-> initial, messages |-> initial, i |-> 0, pc |-> "request",
     err |-> NoError, pending |-> NoCalls, responses |-> << >>, calls |-> 0,
     sent |-> << >>]

\* A request carrying the latest turn only.
RequestOfLastTurn(e) == << e.messages[Len(e.messages)] >>

\* The Messages of the request createChatCompletion builds: the sequence it
\* is given, whole. The engine's `sent` keeps those of its last request.
RequestOf(e) == e.messages

\* The failed request noted, the loop going round again.
AfterTransportErrorRetry(e) ==
    [e EXCEPT !.err = WrapError(e.i), !.calls = e.calls + 1]

\* The failed request: the invocation returns the error at once.
AfterTransportError(e) ==
    [e EXCEPT !.pc = "returned", !.err = WrapError(e.i), !.calls = e.calls + 1,
              !.sent = RequestOf(e)]

\* The answered request, the loop going round again whatever the turn carries.
AfterResponseNoBreak(e, assistantMsg) ==
    [e EXCEPT !.messages = Append(e.messages, assistantMsg),
              !.calls = e.calls + 1,
              !.pc = IF Len(assistantMsg.tool_calls) > 0 THEN "dispatch" ELSE "request",
              !.pending = assistantMsg.tool_calls,
              !.responses = << >>]

\* The answered request dropped and the cycle left when an interrupt event
\* is pending.
AfterResponseUnlessInterrupted(e, assistantMsg) ==
    IF im.shouldClear > 0 \/ im.shouldExit > 0
    THEN [e EXCEPT !.pc = "returned", !.calls = e.calls + 1]
    ELSE [e EXCEPT !.messages = Append(e.messages, assistantMsg),
                   !.calls = e.calls + 1,
                   !.pc = IF Len(assistantMsg.tool_calls) > 0 THEN "dispatch" ELSE "returned",
                   !.pending = assistantMsg.tool_calls,
                   !.responses = << >>]

\* The answered request with the next request issued before the calls of
\* this one are dispatched.
AfterResponseNoDispatch(e, assistantMsg) ==
    [e EXCEPT !.messages = Append(e.messages, assistantMsg),
              !.calls = e.calls + 1,
              !.pc = IF Len(assistantMsg.tool_calls) > 0 THEN "request" ELSE "returned",
              !.pending = assistantMsg.tool_calls,
              !.responses = << >>]

\* The answered request: the assistant message is appended; with tool calls
\* it goes on to dispatch them, without it stops.
AfterResponse(e, assistantMsg) ==
    [e EXCEPT !.messages = Append(e.messages, assistantMsg),
              !.sent = RequestOf(e),
              !.calls = e.calls + 1,
              !.pc = IF Len(assistantMsg.tool_calls) > 0 THEN "dispatch" ELSE "returned",
              !.pending = assistantMsg.tool_calls,
              !.responses = << >>]

\* processToolCalls handles a call only if its type is "function".
IsDispatched(toolCall) == toolCall.type = ToolTypeFunction

\* processToolCalls adds a handler's response at the end of its result.
appendResponse(responses, response) == Append(responses, response)

UnknownToolResponse(toolCall) ==
    createErrorResponse(toolCall.id, <<"Unknown tool: ", toolCall.name>>)

\* The loop condition off by one.
LoopContinuesOneMore(i) == i <= maxIterations

\* The loop goes round again while the counter is under the ceiling.
LoopContinues(i) == i < maxIterations

\* The tool responses are appended to the conversation.
appendResponses(messages, toolResponses) == messages \o toolResponses

\* The iteration ending without the counter going up.
AfterDispatchNoCount(e) ==
    [e EXCEPT !.messages = appendResponses(e.messages, e.responses),
              !.responses = << >>,
              !.pc = "request"]

\* The iteration ends: the responses are appended, the counter goes up and
\* the engine is back at the head of its loop.
AfterDispatch(e) ==
    [e EXCEPT !.messages = appendResponses(e.messages, e.responses),
              !.responses = << >>,
              !.i = e.i + 1,
              !.pc = "request"]

\* The loop ends at the ceiling: the engine returns what it has, no error.
AfterCeiling(e) == [e EXCEPT !.pc = "returned"]

\* DriveConversation handing back nothing with an error.
ReturnedNilOnError(e) ==
    [messages |-> IF e.err # NoError THEN << >> ELSE e.messages, err |-> e.err]

\* What DriveConversation hands back to its caller.
Returned(e) == [messages |-> e.messages, err |-> e.err]

\* ------------------------------------------------------------- delegation

\* A nested engine started on the conversation of its parent.
SubAgentMessagesShared(task) ==
    stack[Len(stack)].messages \o << Message(ChatMessageRoleUser, <<task>>, NoCalls, "") >>

\* The turn sequence a nested engine starts from: one user turn, the task.
SubAgentMessages(task) ==
    << Message(ChatMessageRoleUser, <<task>>, NoCalls, "") >>

RECURSIVE AssistantTexts(_)
\* The assistant texts of a turn sequence, in order.
AssistantTexts(messages) ==
    IF messages = << >> THEN << >>
    ELSE (IF Head(messages).role = ChatMessageRoleAssistant
          THEN Head(messages).text ELSE << >>)
         \o AssistantTexts(Tail(messages))

AgentTaskHeader(task) == <<"Agent task: ", task>>

\* run_agent answering with the header alone.
handleRunAgentHeaderOnly(toolCall, result) ==
    IF result.err # NoError
    THEN createErrorResponse(toolCall.id,
             <<"Error running agent: ", "transport error">>)
    ELSE Message(ChatMessageRoleTool, AgentTaskHeader(toolCall.args.task),
                 NoCalls, toolCall.id)

\* run_agent answering as on success whatever the nested engine returned.
handleRunAgentIgnoresError(toolCall, result) ==
    Message(ChatMessageRoleTool,
            AgentTaskHeader(toolCall.args.task) \o AssistantTexts(result.messages),
            NoCalls, toolCall.id)

\* The tool turn of a run_agent call whose nested engine returned `result`.
handleRunAgent(toolCall, result) ==
    IF result.err # NoError
    THEN createErrorResponse(toolCall.id,
             <<"Error running agent: ", "transport error">>)
    ELSE Message(ChatMessageRoleTool,
                 AgentTaskHeader(toolCall.args.task) \o AssistantTexts(result.messages),
                 NoCalls, toolCall.id)

\* -------------------------------------------------------------- transport

Kinds == {"read", "read_b", "read_bad", "unknown", "notfunc", "notfunc_unknown",
          "write", "write_bad", "list", "list_r", "list_bad", "run_agent",
          "run_agent_bad"}

\* The tool call of each kind the transport may ask for, with the id it bears.
CallOf(kind, id) ==
    CASE kind = "read" ->
           ToolCall(id, ToolTypeFunction, "read_file",
                    Arguments("object", "a.txt", "", FALSE, ""))
      [] kind = "read_b" ->
           ToolCall(id, ToolTypeFunction, "read_file",
                    Arguments("object", "d/b.txt", "", FALSE, ""))
      [] kind = "read_bad" ->
           ToolCall(id, ToolTypeFunction, "read_file", BadArgs)
      [] kind = "unknown" ->
           ToolCall(id, ToolTypeFunction, "unknown_tool", NoArgs)
      [] kind = "notfunc" ->
           ToolCall(id, "custom", "read_file",
                    Arguments("object", "a.txt", "", FALSE, ""))
      [] kind = "notfunc_unknown" ->
           ToolCall(id, "custom", "unknown_tool", NoArgs)
      [] kind = "write" ->
           ToolCall(id, ToolTypeFunction, "write_to_file",
                    Arguments("object", "d/b.txt", "new", FALSE, ""))
      [] kind = "write_bad" ->
           ToolCall(id, ToolTypeFunction, "write_to_file", BadArgs)
      [] kind = "list_bad" ->
           ToolCall(id, ToolTypeFunction, "list_dir", BadArgs)
      [] kind = "list" ->
           ToolCall(id, ToolTypeFunction, "list_dir",
                    Arguments("object", ".", "", FALSE, ""))
      [] kind = "list_r" ->
           ToolCall(id, ToolTypeFunction, "list_dir",
                    Arguments("object", "d", "", TRUE, ""))
      [] kind = "run_agent" ->
           ToolCall(id, ToolTypeFunction, "run_agent",
                    Arguments("object", "", "", FALSE, "summarise"))
      [] OTHER ->
           ToolCall(id, ToolTypeFunction, "run_agent", BadArgs)

\* What a list of kinds takes from the MaxVaried budget.
Cost(kinds) == Cardinality({k \in 1..Len(kinds) : kinds[k] # "read"})

\* Lists of kinds an assistant turn may carry: at most one plain call besides
\* the others. Ids are unique within a turn.
KindLists ==
    { kinds \in UNION { [1..n -> Kinds] : n \in 1..(MaxVaried + 1) } :
        Len(kinds) - Cost(kinds) <= 1 }

CallsOf(kinds) == [k \in 1..Len(kinds) |-> CallOf(kinds[k], ToString(k))]

PlainKinds == <<"read">>

\* The assistant turn carrying the calls of those kinds.
ToolCallResponse(kinds) ==
    Message(ChatMessageRoleAssistant,
            IF kinds = PlainKinds THEN <<"reading">>
            ELSE IF Len(kinds) = 1 THEN << >> ELSE <<"working">>,
            CallsOf(kinds), "")

\* The assistant turns with tool calls, by what they take from the budget.
ToolCallResponses ==
    [c \in 0..MaxVaried |->
        { ToolCallResponse(kinds) : kinds \in { k \in KindLists : Cost(k) = c } }]

\* Assistant turns without tool calls.
FinalResponses ==
    { Message(ChatMessageRoleAssistant, <<"done">>, NoCalls, "") }

\* ---------------------------------------------------------- input manager

\* The debounce window of handleSignals, in seconds.
DebounceWindow == 2

\* Capacity of sigChan, shouldClear and shouldExit.
ChanCap == 1

\* Elapsed times are kept up to "more than the window": the code only ever
\* compares them with the window.
Later == DebounceWindow + 1

Elapse(t) == IF t < Later THEN t + 1 ELSE Later

\* The InputManager as NewInputManager leaves it: empty channels, the
\* subscription to the interrupt signal on, lastCtrlC the zero time (so
\* now.Sub(lastCtrlC) is more than the window), the listener task waiting
\* for a signal. sinceSignal, sent, delivered and log record the signals:
\* an entry of sigChan carries the time since the signal delivered before it.
NewInputManagerStamped ==
    [sigChan |-> << >>, subscribed |-> TRUE, closed |-> FALSE,
     sinceLastCtrlC |-> 0, shouldClear |-> 0, shouldExit |-> 0,
     listener |-> "recv", panicked |-> FALSE, cleanups |-> 0,
     sinceSignal |-> Later, sent |-> 0, delivered |-> 0, log |-> << >>]

NewInputManager ==
    [sigChan |-> << >>, subscribed |-> TRUE, closed |-> FALSE,
     sinceLastCtrlC |-> Later, shouldClear |-> 0, shouldExit |-> 0,
     listener |-> "recv", panicked |-> FALSE, cleanups |-> 0,
     sinceSignal |-> Later, sent |-> 0, delivered |-> 0, log |-> << >>]

\* handleSignals' test of a signal: exit within the window, clear otherwise.
Classify(since) == IF since < DebounceWindow THEN "exit" ELSE "clear"

\* The listener has received `sig` (from sigChan, or, sigChan being closed
\* and empty, the zero value): it classifies it and goes to emit the event,
\* recording the time of a clear.
AfterReceive(m, sig, rest) ==
    LET class == Classify(m.sinceLastCtrlC)
    IN [m EXCEPT !.sigChan = rest,
                 !.sinceLastCtrlC = IF class = "clear" THEN 0 ELSE @,
                 !.listener = IF class = "clear" THEN "sendClear" ELSE "sendExit",
                 !.log = Append(@, [real |-> sig.real, first |-> sig.first,
                                    gap |-> sig.gap, class |-> class])]

\* The listener is at a step it takes at once: a receive with something to
\* receive, or a send with room in the channel.
ListenerReady ==
    \/ im.listener = "recv" /\ (im.sigChan # << >> \/ im.closed)
    \/ im.listener = "sendClear" /\ im.shouldClear < ChanCap
    \/ im.listener = "sendExit" /\ im.shouldExit < ChanCap

\* Cleanup putting lastCtrlC back to the zero time as well.
AfterCleanupResets(m) ==
    [m EXCEPT !.subscribed = FALSE,
              !.closed = TRUE,
              !.panicked = m.closed,
              !.cleanups = @ + 1,
              !.sinceLastCtrlC = Later]

\* Cleanup: signal.Stop, then close(sigChan), which panics on a closed channel.
AfterCleanup(m) ==
    [m EXCEPT !.subscribed = FALSE,
              !.closed = TRUE,
              !.panicked = m.closed,
              !.cleanups = @ + 1]

\* strings.TrimSuffix(input, "\n") on a text of pieces.
TrimSuffix(text) ==
    IF Len(text) > 0 /\ text[Len(text)] = "\n"
    THEN SubSeq(text, 1, Len(text) - 1)
    ELSE text

\* The lines ReadString('\n') may return: text up to and with the newline.
RawLines == { <<"hi", "\n">>, <<"\n">> }

NoReturn == [text |-> << >>, ok |-> TRUE]

\* The foreground flow outside GetInput, no reader task alive. `orphans` are
\* the reader tasks of abandoned GetInput frames still blocked in ReadString;
\* delivered, reported, stopDue, restarts and lost record what happened
\* during the GetInput call in progress.
NoInput ==
    [pc |-> "busy", reading |-> FALSE, orphans |-> 0,
     inputChan |-> << >>, errorChan |-> 0, prompts |-> 0, ret |-> NoReturn,
     delivered |-> << >>, reported |-> FALSE, stopDue |-> FALSE,
     restarts |-> 0, lost |-> 0, staleClear |-> FALSE, staleExit |-> FALSE]

\* GetInput is entered: fresh channels, a reader task started. staleClear
\* and staleExit tell that shouldClear and shouldExit hold an event emitted
\* before the call.
AfterGetInput(in) ==
    [in EXCEPT !.pc = "select", !.reading = TRUE,
               !.inputChan = << >>, !.errorChan = 0,
               !.delivered = << >>, !.reported = FALSE,
               !.stopDue = im.shouldExit > 0, !.restarts = 0,
               !.staleClear = im.shouldClear > 0,
               !.staleExit = im.shouldExit > 0]

\* The clear case of the select returning at once with an empty line.
AfterClearReturns(in) ==
    [in EXCEPT !.pc = "busy", !.ret = [text |-> << >>, ok |-> TRUE]]

\* The clear case of the select: the line is cleared, the prompt printed and
\* GetInput called again, with channels and a reader task of its own; the
\* reader task of this frame, if still in ReadString, stays behind.
AfterClear(in) ==
    [in EXCEPT !.prompts = @ + 1,
               !.orphans = IF in.reading THEN @ + 1 ELSE @,
               !.reading = TRUE,
               !.inputChan = << >>, !.errorChan = 0,
               !.delivered = << >>, !.reported = FALSE,
               !.restarts = @ + 1,
               !.staleClear = FALSE]

\* The other cases of the select: GetInput returns.
AfterInput(in) ==
    [in EXCEPT !.pc = "busy", !.ret = [text |-> Head(in.inputChan), ok |-> TRUE],
               !.inputChan = << >>,
               !.staleClear = FALSE, !.staleExit = FALSE]

AfterStop(in) ==
    [in EXCEPT !.pc = "stopped", !.ret = [text |-> << >>, ok |-> FALSE],
               !.staleClear = FALSE, !.staleExit = FALSE]

\* ------------------------------------------------------------ driver loop

\* Lines, other than blank ones, the driver handles over one run.
MaxLines == 2

\* The driver loop not running: the engine and the input manager are used
\* on their own. `result` is what Run returned, `reported` the error
\* messages main printed, `lines` the lines handed to the engine.
NoRun == [pc |-> "off", result |-> "none", reported |-> 0, lines |-> 0]

\* Run entered: no conversation yet, about to prompt for the first line.
RunStart == [NoRun EXCEPT !.pc = "prompt"]

\* The test for a line to skip made on the empty text only.
IsEmptyText(text) == text = << >>

\* strings.TrimSpace(text) == "" on a text of pieces.
IsBlank(text) == \A k \in DOMAIN text : text[k] \in {" ", "\t", "\r", "\n"}

\* Run going round its loop after a blank line.
AfterBlankLine(r) == [r EXCEPT !.pc = "prompt"]

\* Run handing a line to the engine.
AfterLine(r) == [r EXCEPT !.pc = "engine", !.lines = @ + 1]

\* The engine has answered the line: back to the prompt.
AfterAnswer(r) == [r EXCEPT !.pc = "prompt"]

\* The request failed: Run returns the error, which main prints.
AfterRunError(r) ==
    [r EXCEPT !.pc = "returned", !.result = "error", !.reported = @ + 1]

\* GetInput reported stop: Run leaves its loop and returns nil.
AfterRunStop(r) == [r EXCEPT !.pc = "returned", !.result = "nil"]

\* --------------------------------------------------------------- the state

Top == stack[Len(stack)]

SetTop(e) == [stack EXCEPT ![Len(stack)] = e]

NoSub ==
    [finished |-> FALSE, depth |-> 1, call |-> ToolCall("", "", "", NoArgs),
     engine |-> NewEngine(<< >>), result |-> Returned(NewEngine(<< >>))]

\* The turn sequence the caller hands to the engine: a fresh user turn after
\* an earlier exchange.
InitialTurns ==
    { << Message(ChatMessageRoleUser, <<"earlier">>, NoCalls, ""),
         Message(ChatMessageRoleAssistant, <<"answer">>, NoCalls, ""),
         Message(ChatMessageRoleUser, <<"hello">>, NoCalls, "") >> }

Init ==
    /\ \E initial \in InitialTurns : stack = << NewEngine(initial) >>
    /\ fs = [p \in FilePaths |-> IF p = "a.txt" THEN "old" ELSE Missing]
    /\ dirs = {"."}
    /\ varied = 0
    /\ lastSub = NoSub
    /\ im = NewInputManager
    /\ input = NoInput
    /\ run = NoRun

\* ---------------------------------------------------------------- actions

\* createChatCompletion fails.
RequestFails ==
    /\ Top.pc = "request"
    /\ LoopContinues(Top.i)
    /\ stack' = SetTop(AfterTransportError(Top))
    /\ UNCHANGED <<fs, dirs, varied, lastSub, im, input, run>>

\* createChatCompletion returns an assistant turn.
RequestAnswered ==
    /\ Top.pc = "request"
    /\ LoopContinues(Top.i)
    /\ \/ \E r \in FinalResponses :
            /\ stack' = SetTop(AfterResponse(Top, r))
            /\ varied' = varied
       \/ \E c \in 0..(MaxVaried - varied) : \E r \in ToolCallResponses[c] :
            /\ stack' = SetTop(AfterResponse(Top, r))
            /\ varied' = varied + c
    /\ UNCHANGED <<fs, dirs, lastSub, im, input, run>>

Dispatching == Top.pc = "dispatch" /\ Top.pending # << >>

CurrentCall == Head(Top.pending)

\* The engine with its current call answered by `response`.
Respond(e, response) ==
    [e EXCEPT !.pending = Tail(e.pending),
              !.responses = appendResponse(e.responses, response)]

\* The engine with its current call passed over.
Skip(e) == [e EXCEPT !.pending = Tail(e.pending)]

SkipToolCall ==
    /\ Dispatching
    /\ ~IsDispatched(CurrentCall)
    /\ stack' = SetTop(Skip(Top))
    /\ UNCHANGED <<fs, dirs, varied, lastSub, im, input, run>>

UnknownTool ==
    /\ Dispatching
    /\ IsDispatched(CurrentCall)
    /\ CurrentCall.name \notin toolHandlers
    /\ stack' = SetTop(Respond(Top, UnknownToolResponse(CurrentCall)))
    /\ UNCHANGED <<fs, dirs, varied, lastSub, im, input, run>>

ReadFile ==
    /\ Dispatching
    /\ IsDispatched(CurrentCall)
    /\ CurrentCall.name = "read_file"
    /\ stack' = SetTop(Respond(Top, handleReadFile(CurrentCall)))
    /\ UNCHANGED <<fs, dirs, varied, lastSub, im, input, run>>

ListDir ==
    /\ Dispatching
    /\ IsDispatched(CurrentCall)
    /\ CurrentCall.name = "list_dir"
    /\ stack' = SetTop(Respond(Top, handleListDir(CurrentCall)))
    /\ UNCHANGED <<fs, dirs, varied, lastSub, im, input, run>>

WriteFile ==
    /\ Dispatching
    /\ IsDispatched(CurrentCall)
    /\ CurrentCall.name = "write_to_file"
    /\ \E outcome \in WriteOutcomes(CurrentCall) :
         /\ stack' = SetTop(Respond(Top, handleWriteFile(CurrentCall, outcome)))
         /\ fs' = FsAfterWrite(CurrentCall, outcome)
         /\ dirs' = DirsAfterWrite(CurrentCall, outcome)
    /\ UNCHANGED <<varied, lastSub, im, input, run>>

\* run_agent with a payload that does not decode: no nested engine.
RunAgentInvalid ==
    /\ Dispatching
    /\ IsDispatched(CurrentCall)
    /\ CurrentCall.name = "run_agent"
    /\ UnmarshalFails(CurrentCall.args)
    /\ stack' = SetTop(Respond(Top, createErrorResponse(CurrentCall.id, InvalidArguments)))
    /\ UNCHANGED <<fs, dirs, varied, lastSub, im, input, run>>

\* run_agent starting the nested engine in the background: the parent gets
\* its tool turn at once and goes on.
StartRunAgentDetached ==
    /\ Dispatching
    /\ IsDispatched(CurrentCall)
    /\ CurrentCall.name = "run_agent"
    /\ ~UnmarshalFails(CurrentCall.args)
    /\ stack' = Append(SetTop(Respond(Top,
                           Message(ChatMessageRoleTool,
                                   AgentTaskHeader(CurrentCall.args.task),
                                   NoCalls, CurrentCall.id))),
                       NewEngine(SubAgentMessages(CurrentCall.args.task)))
    /\ UNCHANGED <<fs, dirs, varied, lastSub, im, input, run>>

\* run_agent starting the nested engine on the parent's iteration counter.
StartRunAgentSharedCounter ==
    /\ Dispatching
    /\ IsDispatched(CurrentCall)
    /\ CurrentCall.name = "run_agent"
    /\ ~UnmarshalFails(CurrentCall.args)
    /\ stack' = Append(stack,
                       [NewEngine(SubAgentMessages(CurrentCall.args.task))
                            EXCEPT !.i = Top.i])
    /\ UNCHANGED <<fs, dirs, varied, lastSub, im, input, run>>

\* run_agent starts a nested engine; the parent waits inside the dispatch.
StartRunAgent ==
    /\ Dispatching
    /\ IsDispatched(CurrentCall)
    /\ CurrentCall.name = "run_agent"
    /\ ~UnmarshalFails(CurrentCall.args)
    /\ stack' = Append(stack, NewEngine(SubAgentMessages(CurrentCall.args.task)))
    /\ UNCHANGED <<fs, dirs, varied, lastSub, im, input, run>>

\* The nested engine has returned: its result becomes the parent's tool turn.
ReturnRunAgent ==
    /\ Len(stack) > 1
    /\ Top.pc = "returned"
    /\ LET parent == stack[Len(stack) - 1]
           call == Head(parent.pending)
       IN stack' = Append(SubSeq(stack, 1, Len(stack) - 2),
                          Respond(parent, handleRunAgent(call, Returned(Top))))
    /\ lastSub' = [finished |-> TRUE, depth |-> Len(stack) - 1,
                   call |-> Head(stack[Len(stack) - 1].pending),
                   engine |-> Top, result |-> Returned(Top)]
    /\ UNCHANGED <<fs, dirs, varied, im, input, run>>

\* Every call of the turn is dispatched: the responses join the conversation.
AppendToolResponses ==
    /\ Top.pc = "dispatch"
    /\ Top.pending = << >>
    /\ stack' = SetTop(AfterDispatch(Top))
    /\ lastSub' = NoSub
    /\ UNCHANGED <<fs, dirs, varied, im, input, run>>

\* The loop condition fails: the ceiling is reached.
CeilingReached ==
    /\ Top.pc = "request"
    /\ ~LoopContinues(Top.i)
    /\ stack' = SetTop(AfterCeiling(Top))
    /\ UNCHANGED <<fs, dirs, varied, lastSub, im, input, run>>

Next ==
    \/ RequestFails
    \/ RequestAnswered
    \/ SkipToolCall
    \/ UnknownTool
    \/ ReadFile
    \/ ListDir
    \/ WriteFile
    \/ RunAgentInvalid
    \/ StartRunAgent
    \/ ReturnRunAgent
    \/ AppendToolResponses
    \/ CeilingReached

Spec == Init /\ [][Next]_vars

\* ------------------------------------------------- delegation at every level

\* The assistant turn that asks for run_agent and nothing else.
DelegatingResponse == ToolCallResponse(<<"run_agent">>)

\* The transport answers the first request of an engine by asking for
\* run_agent.
RequestAnsweredRunAgent ==
    /\ Top.pc = "request"
    /\ LoopContinues(Top.i)
    /\ Top.calls = 0
    /\ Len(stack) < MaxDepth
    /\ stack' = SetTop(AfterResponse(Top, DelegatingResponse))
    /\ UNCHANGED <<fs, dirs, varied, lastSub, im, input, run>>

\* As Init, the transport asking for nothing but run_agent and plain calls.
InitNesting ==
    /\ \E initial \in InitialTurns : stack = << NewEngine(initial) >>
    /\ fs = [p \in FilePaths |-> IF p = "a.txt" THEN "old" ELSE Missing]
    /\ dirs = {"."}
    /\ varied = MaxVaried
    /\ lastSub = NoSub
    /\ im = NewInputManager
    /\ input = NoInput
    /\ run = NoRun

\* The engine under a transport whose first answer at every level asks for
\* run_agent, and whose later answers are plain calls, final turns or errors.
NextNesting ==
    \/ RequestFails
    \/ RequestAnswered
    \/ RequestAnsweredRunAgent
    \/ ReadFile
    \/ StartRunAgent
    \/ ReturnRunAgent
    \/ AppendToolResponses
    \/ CeilingReached

SpecNesting == InitNesting /\ [][NextNesting]_vars

\* ---------------------------------------------------- input layer actions

\* signal.Notify's relay of an interrupt: put in sigChan if there is room,
\* dropped otherwise.
AfterSignal(m) ==
    IF Len(m.sigChan) < ChanCap
    THEN [m EXCEPT !.sigChan = Append(@, [real |-> TRUE, first |-> m.delivered = 0,
                                         gap |-> m.sinceSignal]),
                   !.sinceSignal = 0,
                   !.sent = @ + 1,
                   !.delivered = @ + 1]
    ELSE [m EXCEPT !.sent = @ + 1]

\* The user interrupts the process.
Interrupt ==
    /\ ~im.panicked
    /\ im.subscribed
    /\ im.sent < MaxSignals
    /\ im' = AfterSignal(im)
    /\ UNCHANGED <<stack, fs, dirs, varied, lastSub, input, run>>

\* What a receive from the closed, empty sigChan yields.
ZeroSignal == [real |-> FALSE, first |-> FALSE, gap |-> Later]

\* handleSignals receives from sigChan and classifies what it got.
ListenerReceive ==
    /\ ~im.panicked
    /\ im.listener = "recv"
    /\ \/ /\ im.sigChan # << >>
          /\ im' = AfterReceive(im, Head(im.sigChan), Tail(im.sigChan))
       \/ /\ im.sigChan = << >>
          /\ im.closed
          /\ im' = AfterReceive(im, ZeroSignal, << >>)
    /\ UNCHANGED <<stack, fs, dirs, varied, lastSub, input, run>>

\* handleSignals emits clear and goes back to receive.
ListenerSendClear ==
    /\ ~im.panicked
    /\ im.listener = "sendClear"
    /\ im.shouldClear < ChanCap
    /\ im' = [im EXCEPT !.shouldClear = @ + 1, !.listener = "recv"]
    /\ UNCHANGED <<stack, fs, dirs, varied, lastSub, input, run>>

\* handleSignals emitting exit and going back to receive.
ListenerSendExitGoesOn ==
    /\ ~im.panicked
    /\ im.listener = "sendExit"
    /\ im.shouldExit < ChanCap
    /\ im' = [im EXCEPT !.shouldExit = @ + 1, !.listener = "recv"]
    /\ input' = [input EXCEPT !.stopDue = @ \/ input.pc = "select"]
    /\ UNCHANGED <<stack, fs, dirs, varied, lastSub, run>>

\* handleSignals emits exit and returns.
ListenerSendExit ==
    /\ ~im.panicked
    /\ im.listener = "sendExit"
    /\ im.shouldExit < ChanCap
    /\ im' = [im EXCEPT !.shouldExit = @ + 1, !.listener = "done"]
    /\ input' = [input EXCEPT !.stopDue = @ \/ input.pc = "select"]
    /\ UNCHANGED <<stack, fs, dirs, varied, lastSub, run>>

\* A second passes. The listener takes a step it can take before time moves.
Tick ==
    /\ ~im.panicked
    /\ ~ListenerReady
    /\ im.sinceLastCtrlC < Later \/ im.sinceSignal < Later
    /\ im' = [im EXCEPT !.sinceLastCtrlC = Elapse(@), !.sinceSignal = Elapse(@)]
    /\ UNCHANGED <<stack, fs, dirs, varied, lastSub, input, run>>

\* The foreground flow calls Cleanup.
Cleanup ==
    /\ ~im.panicked
    /\ input.pc \in {"busy", "stopped"}
    /\ im' = AfterCleanup(im)
    /\ UNCHANGED <<stack, fs, dirs, varied, lastSub, input, run>>

\* The foreground flow calls GetInput, which it does until it has released
\* the manager.
CallGetInput ==
    /\ ~im.panicked
    /\ im.cleanups = 0
    /\ input.pc = "busy"
    /\ input' = AfterGetInput(input)
    /\ UNCHANGED <<stack, fs, dirs, varied, lastSub, im, run>>

\* The underlying reader completes a line: the ReadString of one of the
\* reader tasks using it returns. With several tasks in ReadString on the
\* one bufio.Reader, which of them gets the line is not determined.
ReaderLine ==
    /\ ~im.panicked
    /\ \E raw \in RawLines :
         \/ /\ input.reading
            /\ input' = [input EXCEPT !.reading = FALSE,
                                      !.inputChan = << TrimSuffix(raw) >>,
                                      !.delivered = raw]
         \/ /\ input.orphans > 0
            /\ input' = [input EXCEPT !.orphans = @ - 1,
                                      !.lost = @ + 1,
                                      !.delivered =
                                          IF input.pc = "select" THEN raw ELSE @]
    /\ UNCHANGED <<stack, fs, dirs, varied, lastSub, im, run>>

\* The underlying reader reports an error or the end of the input to one of
\* the reader tasks.
ReaderError ==
    /\ ~im.panicked
    /\ \/ /\ input.reading
          /\ input' = [input EXCEPT !.reading = FALSE, !.errorChan = 1,
                                    !.reported = TRUE, !.stopDue = TRUE]
       \/ /\ input.orphans > 0
          /\ input' = [input EXCEPT !.orphans = @ - 1,
                                    !.reported = @ \/ input.pc = "select",
                                    !.stopDue = @ \/ input.pc = "select"]
    /\ UNCHANGED <<stack, fs, dirs, varied, lastSub, im, run>>

\* The cases of GetInput's select; any case that is ready may be taken.
SelectInput ==
    /\ ~im.panicked
    /\ input.pc = "select"
    /\ input.inputChan # << >>
    /\ input' = AfterInput(input)
    /\ UNCHANGED <<stack, fs, dirs, varied, lastSub, im, run>>

SelectError ==
    /\ ~im.panicked
    /\ input.pc = "select"
    /\ input.errorChan > 0
    /\ input' = AfterStop(input)
    /\ UNCHANGED <<stack, fs, dirs, varied, lastSub, im, run>>

SelectClear ==
    /\ ~im.panicked
    /\ input.pc = "select"
    /\ im.shouldClear > 0
    /\ im' = [im EXCEPT !.shouldClear = @ - 1]
    /\ input' = AfterClear(input)
    /\ UNCHANGED <<stack, fs, dirs, varied, lastSub, run>>

SelectExit ==
    /\ ~im.panicked
    /\ input.pc = "select"
    /\ im.shouldExit > 0
    /\ im' = [im EXCEPT !.shouldExit = @ - 1]
    /\ input' = AfterStop(input)
    /\ UNCHANGED <<stack, fs, dirs, varied, lastSub, run>>

\* The input layer alone: the listener, the signals and the foreground flow
\* calling GetInput and Cleanup, the engine at rest.
NextInput ==
    \/ Interrupt
    \/ ListenerReceive
    \/ ListenerSendClear
    \/ ListenerSendExit
    \/ Tick
    \/ Cleanup
    \/ CallGetInput
    \/ ReaderLine
    \/ ReaderError
    \/ SelectInput
    \/ SelectError
    \/ SelectClear
    \/ SelectExit

SpecInput == Init /\ [][NextInput]_vars

\* ---------------------------------------------------- file tools in a turn

FileContents == {"new", "newer"}

\* The file tool calls a turn may carry: a write of some content to a path,
\* or a read of a path.
FileCallShapes ==
    { [name |-> "write_to_file", path |-> p, content |-> c] :
        p \in FilePaths, c \in FileContents }
    \cup { [name |-> "read_file", path |-> p, content |-> ""] : p \in FilePaths }

FileCallLists == UNION { [1..n -> FileCallShapes] : n \in 1..MaxCalls }

FileCallsOf(shapes) ==
    [k \in 1..Len(shapes) |->
        ToolCall(ToString(k), ToolTypeFunction, shapes[k].name,
                 Arguments("object", shapes[k].path, shapes[k].content, FALSE, ""))]

\* The engine with an assistant turn of file tool calls just appended, about
\* to dispatch them.
InitFiles ==
    /\ \E initial \in InitialTurns : \E shapes \in FileCallLists :
         stack = << AfterResponse(NewEngine(initial),
                        Message(ChatMessageRoleAssistant, <<"working">>,
                                FileCallsOf(shapes), "")) >>
    /\ fs = [p \in FilePaths |-> IF p = "a.txt" THEN "old" ELSE Missing]
    /\ dirs = {"."}
    /\ varied = MaxVaried
    /\ lastSub = NoSub
    /\ im = NewInputManager
    /\ input = NoInput
    /\ run = NoRun

\* processToolCalls on those calls, then the responses appended.
NextFiles ==
    \/ ReadFile
    \/ WriteFile
    \/ AppendToolResponses

SpecFiles == InitFiles /\ [][NextFiles]_vars

\* ------------------------------------------- interrupts during the engine

\* The foreground flow inside the engine's request/response cycle (plain
\* tool calls, final turns, transport errors) while interrupts arrive and the
\* listener classifies them.
NextInterrupted ==
    \/ RequestFails
    \/ RequestAnswered
    \/ ReadFile
    \/ AppendToolResponses
    \/ CeilingReached
    \/ Interrupt
    \/ ListenerReceive
    \/ ListenerSendClear
    \/ ListenerSendExit
    \/ Tick

SpecInterrupted == InitNesting /\ [][NextInterrupted]_vars

\* The same with the tasks scheduled: a step the listener can take, a
\* receive with something to receive or a send with room in the channel, it
\* takes, and so does the engine with the steps it runs itself. The
\* transport request alone may stay unanswered: it waits for the network
\* under a context without deadline.
SpecInterruptedFair ==
    /\ SpecInterrupted
    /\ WF_vars(ListenerReceive)
    /\ WF_vars(ListenerSendClear)
    /\ WF_vars(ListenerSendExit)
    /\ WF_vars(ReadFile)
    /\ WF_vars(AppendToolResponses)
    /\ WF_vars(CeilingReached)

\* ---------------------------------------------------------- the driver

\* Run's conversation before the first line: empty, no engine running.
NoConversation == [NewEngine(<< >>) EXCEPT !.pc = "returned"]

UserTurn(text) == Message(ChatMessageRoleUser, text, NoCalls, "")

\* Run prints the prompt and calls GetInput.
RunCallsGetInput ==
    /\ ~im.panicked
    /\ run.pc = "prompt"
    /\ run.lines < MaxLines
    /\ input.pc = "busy"
    /\ input' = AfterGetInput(input)
    /\ run' = [run EXCEPT !.pc = "waiting"]
    /\ UNCHANGED <<stack, fs, dirs, varied, lastSub, im>>

\* GetInput returned a line: a blank one is skipped, any other is appended
\* as a user turn and the engine started on the conversation.
RunTakesInput ==
    /\ run.pc = "waiting"
    /\ input.pc = "busy"
    /\ IF IsBlank(input.ret.text)
       THEN /\ run' = AfterBlankLine(run)
            /\ stack' = stack
       ELSE /\ run' = AfterLine(run)
            /\ stack' = << [NewEngine(Append(Top.messages, UserTurn(input.ret.text)))
                               EXCEPT !.sent = Top.sent] >>
    /\ UNCHANGED <<fs, dirs, varied, lastSub, im, input>>

\* Run calling Cleanup itself before it breaks out of its loop, the deferred
\* Cleanup running as well.
RunStopsCleansTwice ==
    /\ run.pc = "waiting"
    /\ input.pc = "stopped"
    /\ run' = AfterRunStop(run)
    /\ im' = AfterCleanup(AfterCleanup(im))
    /\ UNCHANGED <<stack, fs, dirs, varied, lastSub, input>>

\* GetInput reported stop: Run breaks out of its loop and returns nil, the
\* deferred Cleanup running on the way out.
RunStops ==
    /\ run.pc = "waiting"
    /\ input.pc = "stopped"
    /\ run' = AfterRunStop(run)
    /\ im' = AfterCleanup(im)
    /\ UNCHANGED <<stack, fs, dirs, varied, lastSub, input>>

\* The engine is through with the line without error.
RunEngineAnswered ==
    /\ run.pc = "engine"
    /\ Top.pc = "returned"
    /\ Top.err = NoError
    /\ run' = AfterAnswer(run)
    /\ UNCHANGED <<stack, fs, dirs, varied, lastSub, im, input>>

\* A request failed: Run returns the error (the deferred Cleanup running on
\* the way out) and main prints it.
RunEngineFailed ==
    /\ run.pc = "engine"
    /\ Top.pc = "returned"
    /\ Top.err # NoError
    /\ run' = AfterRunError(run)
    /\ im' = AfterCleanup(im)
    /\ UNCHANGED <<stack, fs, dirs, varied, lastSub, input>>

\* More than the debounce window passes, the listener having taken the steps
\* it could take.
Pause ==
    /\ ~im.panicked
    /\ ~ListenerReady
    /\ im.sinceLastCtrlC < Later \/ im.sinceSignal < Later
    /\ im' = [im EXCEPT !.sinceLastCtrlC = Later, !.sinceSignal = Later]
    /\ UNCHANGED <<stack, fs, dirs, varied, lastSub, input, run>>

InitRun ==
    /\ stack = << NoConversation >>
    /\ fs = [p \in FilePaths |-> IF p = "a.txt" THEN "old" ELSE Missing]
    /\ dirs = {"."}
    /\ varied = MaxVaried
    /\ lastSub = NoSub
    /\ im = NewInputManager
    /\ input = NoInput
    /\ run = RunStart

\* The program: the driver loop reading lines and running the engine on
\* them, the reader tasks, the listener and the interrupts, which come
\* either at once or more than the debounce window apart.
NextRun ==
    \/ RunCallsGetInput
    \/ RunTakesInput
    \/ RunStops
    \/ RunEngineAnswered
    \/ RunEngineFailed
    \/ ReaderLine
    \/ ReaderError
    \/ SelectInput
    \/ SelectError
    \/ SelectClear
    \/ SelectExit
    \/ RequestFails
    \/ RequestAnswered
    \/ ReadFile
    \/ AppendToolResponses
    \/ CeilingReached
    \/ Interrupt
    \/ ListenerReceive
    \/ ListenerSendClear
    \/ ListenerSendExit
    \/ Pause

SpecRun == InitRun /\ [][NextRun]_vars

\* ------------------------------------------------- the driver, undisturbed

\* Lines of white space only.
WhiteLines == { <<" ", "\n">>, <<" ", "\t", "\n">> }

\* The underlying reader completes a line of white space.
ReaderWhiteLine ==
    /\ ~im.panicked
    /\ \E raw \in WhiteLines :
         \/ /\ input.reading
            /\ input' = [input EXCEPT !.reading = FALSE,
                                      !.inputChan = << TrimSuffix(raw) >>,
                                      !.delivered = raw]
         \/ /\ input.orphans > 0
            /\ input' = [input EXCEPT !.orphans = @ - 1,
                                      !.lost = @ + 1,
                                      !.delivered =
                                          IF input.pc = "select" THEN raw ELSE @]
    /\ UNCHANGED <<stack, fs, dirs, varied, lastSub, im, run>>

\* The driver loop with no interrupt coming: lines of text, empty lines and
\* lines of white space, read errors, and the engine on each line taken.
NextLines ==
    \/ RunCallsGetInput
    \/ RunTakesInput
    \/ RunStops
    \/ RunEngineAnswered
    \/ RunEngineFailed
    \/ ReaderLine
    \/ ReaderWhiteLine
    \/ ReaderError
    \/ SelectInput
    \/ SelectError
    \/ RequestFails
    \/ RequestAnswered
    \/ ReadFile
    \/ AppendToolResponses
    \/ CeilingReached

SpecLines == InitRun /\ [][NextLines]_vars

\* ============================================================== properties

\* The turns an engine invocation has added to the sequence it was given.
Added(e) == SubSeq(e.messages, Len(e.initial) + 1, Len(e.messages))

\* How many assistant turns it has added, and how many of them carry calls.
NumAssistant(e) ==
    Cardinality({k \in 1..Len(Added(e)) : Added(e)[k].role = "assistant"})

NumAssistantWithCalls(e) ==
    Cardinality({k \in 1..Len(Added(e)) :
        Added(e)[k].role = "assistant" /\ Len(Added(e)[k].tool_calls) > 0})

\* `sub` occurs in `text` as consecutive pieces.
Contains(text, sub) ==
    \E k \in 0..Len(text) :
        k + Len(sub) <= Len(text) /\ SubSeq(text, k + 1, k + Len(sub)) = sub

StartsWith(text, piece) == Len(text) > 0 /\ text[1] = piece

\* The calls of the turn being dispatched that processToolCalls is done with.
DoneCalls(e) ==
    LET cs == e.messages[Len(e.messages)].tool_calls
    IN SubSeq(cs, 1, Len(cs) - Len(e.pending))

ResponsesTo(e, id) == {r \in 1..Len(e.responses) : e.responses[r].tool_call_id = id}

\* ---------------------------------------------------------------------- C1
\* C1: an engine invocation whose every request was answered by an assistant
\* turn with tool calls never issues an eleventh request, has no error, and
\* has returned only once it has issued exactly 10 requests.
C1_CeilingTenRequests ==
    \A k \in DOMAIN stack :
        LET e == stack[k]
        IN NumAssistantWithCalls(e) = e.calls =>
             /\ e.calls <= 10
             /\ e.err = NoError
             /\ (e.pc = "returned" => e.calls = 10)

C1_Witness ==
    /\ Top.pc = "returned"
    /\ Top.err = NoError
    /\ Top.calls = 10
    /\ NumAssistantWithCalls(Top) = 10

\* ---------------------------------------------------------------------- C2
\* C2: an assistant turn without tool calls added by an engine invocation is
\* the last turn of its sequence: the invocation has returned, without error
\* and without a request after the one that brought it; if that was its first
\* request, the sequence is the initial turns plus that turn.
C2_NoToolCallsStops ==
    \A k \in DOMAIN stack :
        LET e == stack[k]
        IN \A n \in (Len(e.initial) + 1)..Len(e.messages) :
             (e.messages[n].role = "assistant" /\ e.messages[n].tool_calls = << >>) =>
                /\ n = Len(e.messages)
                /\ e.pc = "returned"
                /\ e.err = NoError
                /\ e.calls = NumAssistant(e)
                /\ (NumAssistant(e) = 1 =>
                      e.calls = 1 /\ e.messages = Append(e.initial, e.messages[n]))

C2_Witness ==
    /\ Len(stack) = 1
    /\ Top.pc = "returned"
    /\ Top.calls = 1
    /\ Len(Top.messages) = Len(Top.initial) + 1
    /\ Top.messages[Len(Top.messages)].tool_calls = << >>

\* ---------------------------------------------------------------------- C3
\* C3: every assistant turn with N tool calls that an engine has finished
\* dispatching is followed at once by N tool turns, the i-th bearing the id
\* of the i-th call; while it is being dispatched the responses gathered so
\* far answer the calls done so far, in order.
C3_ToolTurnsInCallOrder ==
    \A k \in DOMAIN stack :
        LET e == stack[k]
        IN \A n \in (Len(e.initial) + 1)..Len(e.messages) :
             LET cs == e.messages[n].tool_calls
             IN (e.messages[n].role = "assistant" /\ Len(cs) > 0) =>
                  IF n = Len(e.messages) /\ e.pc = "dispatch"
                  THEN /\ Len(e.responses) = Len(DoneCalls(e))
                       /\ \A j \in 1..Len(e.responses) :
                            /\ e.responses[j].role = "tool"
                            /\ e.responses[j].tool_call_id = cs[j].id
                  ELSE /\ n + Len(cs) <= Len(e.messages)
                       /\ \A j \in 1..Len(cs) :
                            /\ e.messages[n + j].role = "tool"
                            /\ e.messages[n + j].tool_call_id = cs[j].id

\* ---------------------------------------------------------------------- C4
\* C4: processToolCalls has one tool turn for every call it is done with:
\* as many responses as calls handled.
C4_OneToolTurnPerCall ==
    \A k \in DOMAIN stack :
        LET e == stack[k]
        IN e.pc = "dispatch" =>
             /\ Len(e.responses) = Len(DoneCalls(e))
             /\ \A j \in 1..Len(e.responses) : e.responses[j].role = "tool"

\* ---------------------------------------------------------------------- C5
\* C5: a handler given a payload that does not decode answers with one tool
\* turn that bears the call's id and starts with "Invalid arguments: "; and
\* when the turns of an iteration that holds such an answer are appended,
\* the engine is back at the head of its loop with no error.
HasHandler(c) ==
    c.type = "function" /\ c.name \in {"read_file", "list_dir", "write_to_file", "run_agent"}

IsInvalidArguments(m) == m.role = "tool" /\ StartsWith(m.text, "Invalid arguments: ")

C5_HandlerAnswer ==
    \A k \in DOMAIN stack :
        LET e == stack[k]
        IN e.pc = "dispatch" =>
             \A j \in 1..Len(DoneCalls(e)) :
                LET c == DoneCalls(e)[j]
                IN (HasHandler(c) /\ c.args.json = "malformed") =>
                     /\ Cardinality(ResponsesTo(e, c.id)) = 1
                     /\ \A r \in ResponsesTo(e, c.id) : IsInvalidArguments(e.responses[r])

C5_EngineGoesOn ==
    (/\ Len(stack') = Len(stack)
     /\ Top.pc = "dispatch"
     /\ Top.pending = << >>
     /\ \E r \in 1..Len(Top.responses) : IsInvalidArguments(Top.responses[r])
     /\ stack' # stack)
    => /\ stack'[Len(stack)].pc = "request"
       /\ stack'[Len(stack)].err = NoError
       /\ stack'[Len(stack)].i = Top.i + 1
       /\ stack'[Len(stack)].messages = Top.messages \o Top.responses

C5_InvalidArgumentsAbsorbed == []C5_HandlerAnswer /\ [][C5_EngineGoesOn]_vars

C5_Witness ==
    /\ Top.pc = "request"
    /\ Top.i > 0
    /\ Top.err = NoError
    /\ IsInvalidArguments(Top.messages[Len(Top.messages)])

\* ---------------------------------------------------------------------- C6
\* C6: every call processToolCalls is done with that names a tool outside
\* the registry has exactly one response, a tool turn that bears its id and
\* reports "Unknown tool".
C6_UnknownToolAnswered ==
    \A k \in DOMAIN stack :
        LET e == stack[k]
        IN e.pc = "dispatch" =>
             \A j \in 1..Len(DoneCalls(e)) :
                LET c == DoneCalls(e)[j]
                IN c.name \notin {"read_file", "list_dir", "write_to_file", "run_agent"} =>
                     /\ Cardinality(ResponsesTo(e, c.id)) = 1
                     /\ \A r \in ResponsesTo(e, c.id) :
                          /\ e.responses[r].role = "tool"
                          /\ StartsWith(e.responses[r].text, "Unknown tool: ")

\* ---------------------------------------------------------------------- C7
\* C7: an engine invocation with a transport error has returned; the failed
\* request was its last one, brought no assistant turn and no dispatch.
C7_TransportErrorIsFatal ==
    \A k \in DOMAIN stack :
        LET e == stack[k]
        IN e.err # NoError =>
             /\ e.pc = "returned"
             /\ e.pending = << >>
             /\ e.responses = << >>
             /\ e.calls = NumAssistant(e) + 1
             /\ e.calls = e.i + 1
             /\ e.err.iteration = e.i

C7_Witness ==
    /\ Top.err # NoError
    /\ Top.calls >= 2
    /\ Top.pc = "returned"

\* ---------------------------------------------------------------------- C8
\* C8: what an engine invocation returns with a transport error is the error
\* and the whole sequence it holds: the initial turns, then every turn of
\* the earlier iterations.
IsPrefix(a, b) == Len(a) <= Len(b) /\ SubSeq(b, 1, Len(a)) = a

HoldsEarlierIterations(e) ==
    /\ IsPrefix(e.initial, e.messages)
    /\ NumAssistant(e) = e.calls - 1
    /\ NumAssistant(e) = e.i

TaskTurn(task) ==
    [role |-> "user", text |-> <<task>>, tool_calls |-> << >>, tool_call_id |-> ""]

C9_Start ==
    Len(stack') > Len(stack) =>
        /\ Len(stack') = Len(stack) + 1
        /\ SubSeq(stack', 1, Len(stack)) = stack
        /\ Top.pending[1].name = "run_agent"
        /\ stack'[Len(stack')].messages = << TaskTurn(Top.pending[1].args.task) >>

C9_Return ==
    Len(stack') < Len(stack) =>
        /\ Len(stack') = Len(stack) - 1
        /\ SubSeq(stack', 1, Len(stack') - 1) = SubSeq(stack, 1, Len(stack') - 1)
        /\ LET p == stack[Len(stack')]
               q == stack'[Len(stack')]
           IN /\ q.messages = p.messages
              /\ q.pending = Tail(p.pending)
              /\ Len(q.responses) = Len(p.responses) + 1
              /\ SubSeq(q.responses, 1, Len(p.responses)) = p.responses
              /\ q.responses[Len(q.responses)].role = "tool"
              /\ q.responses[Len(q.responses)].tool_call_id = p.pending[1].id

C9_Run ==
    Len(stack') = Len(stack) =>
        /\ SubSeq(stack', 1, Len(stack) - 1) = SubSeq(stack, 1, Len(stack) - 1)
        /\ (Top.pc = "dispatch" /\ stack'[Len(stack)].pc = "request") =>
              stack'[Len(stack)].messages = Top.messages \o Top.responses

C9_DelegationIsolation == [][C9_Start /\ C9_Return /\ C9_Run]_vars

C9_Witness ==
    /\ lastSub.finished
    /\ Len(lastSub.result.messages) >= 5
    /\ Len(stack) = lastSub.depth
    /\ Top.pc = "dispatch"
    /\ Top.pending = << >>
    /\ Len(Top.responses) = 1
    /\ Top.responses[1].tool_call_id = lastSub.call.id

\* --------------------------------------------------------------------- C10
\* C10: once a nested engine has returned without error, its parent holds
\* exactly one response to the run_agent call: a tool turn bearing the call's
\* id whose text contains "Agent task: " followed by the task and contains
\* the text of the last assistant turn of the nested engine.
LastAssistantText(messages) ==
    LET at == {k \in 1..Len(messages) : messages[k].role = "assistant"}
    IN IF at = {} THEN << >>
       ELSE messages[CHOOSE k \in at : \A m \in at : m <= k].text

C10_RunAgentResult ==
    (lastSub.finished /\ lastSub.result.err = NoError) =>
        LET parent == stack[lastSub.depth]
        IN /\ parent.pc = "dispatch"
           /\ Cardinality(ResponsesTo(parent, lastSub.call.id)) = 1
           /\ \A r \in ResponsesTo(parent, lastSub.call.id) :
                /\ parent.responses[r].role = "tool"
                /\ Contains(parent.responses[r].text,
                            <<"Agent task: ", lastSub.call.args.task>>)
                /\ Contains(parent.responses[r].text,
                            LastAssistantText(lastSub.engine.messages))

C10_Witness ==
    /\ lastSub.finished
    /\ lastSub.result.err = NoError
    /\ lastSub.engine.calls = 10
    /\ lastSub.engine.i = 10
    /\ LastAssistantText(lastSub.engine.messages) # << >>
    /\ Cardinality(ResponsesTo(stack[lastSub.depth], lastSub.call.id)) = 1

\* --------------------------------------------------------------------- C11
\* C11: once a nested engine has returned with a transport error, its parent
\* has no error and holds exactly one response to the run_agent call, a tool
\* turn bearing the call's id whose text is the error text; and when the
\* turns of that iteration are appended the parent is back at the head of its
\* loop, one iteration on, with no error.
IsAgentError(m) == m.role = "tool" /\ StartsWith(m.text, "Error running agent: ")

C11_ParentAnswer ==
    (lastSub.finished /\ lastSub.result.err # NoError) =>
        LET parent == stack[lastSub.depth]
        IN /\ parent.err = NoError
           /\ parent.pc = "dispatch"
           /\ Cardinality(ResponsesTo(parent, lastSub.call.id)) = 1
           /\ \A r \in ResponsesTo(parent, lastSub.call.id) :
                IsAgentError(parent.responses[r])

C11_ParentGoesOn ==
    (/\ lastSub.finished
     /\ lastSub.result.err # NoError
     /\ Len(stack) = lastSub.depth
     /\ Len(stack') = Len(stack)
     /\ Top.pending = << >>
     /\ stack' # stack)
    => /\ stack'[Len(stack)].pc = "request"
       /\ stack'[Len(stack)].err = NoError
       /\ stack'[Len(stack)].i = Top.i + 1
       /\ stack'[Len(stack)].messages = Top.messages \o Top.responses

C11_NestedErrorAbsorbed == []C11_ParentAnswer /\ [][C11_ParentGoesOn]_vars

C11_Witness ==
    /\ Len(stack) = 1
    /\ Top.pc = "request"
    /\ Top.i > 0
    /\ Top.err = NoError
    /\ IsAgentError(Top.messages[Len(Top.messages)])

PcRank(pc) == IF pc = "request" THEN 2 ELSE IF pc = "dispatch" THEN 1 ELSE 0

Rank(e) == << maxIterations - e.i, PcRank(e.pc), Len(e.pending) >>

LexLess(a, b) ==
    \/ a[1] < b[1]
    \/ a[1] = b[1] /\ a[2] < b[2]
    \/ a[1] = b[1] /\ a[2] = b[2] /\ a[3] < b[3]

C12_Bounded ==
    \A k \in DOMAIN stack :
        stack[k].i <= maxIterations /\ stack[k].calls <= maxIterations

C12_Step ==
    /\ (Len(stack') = Len(stack) /\ stack' # stack) =>
          /\ SubSeq(stack', 1, Len(stack) - 1) = SubSeq(stack, 1, Len(stack) - 1)
          /\ LexLess(Rank(stack'[Len(stack)]), Rank(Top))
    /\ Len(stack') > Len(stack) =>
          /\ SubSeq(stack', 1, Len(stack)) = stack
          /\ stack'[Len(stack')].i = 0
    /\ Len(stack') < Len(stack) =>
          /\ Top.pc = "returned"
          /\ LexLess(Rank(stack'[Len(stack')]), Rank(stack[Len(stack')]))

C13_DebounceByGap ==
    \A k \in 1..Len(im.log) :
        LET x == im.log[k]
        IN (x.real /\ ~x.first) =>
              /\ x.gap < DebounceWindow => x.class = "exit"
              /\ x.gap > DebounceWindow => x.class = "clear"

\* --------------------------------------------------------------------- C14
\* C14: once Cleanup has been called the signal subscription is released,
\* and no call of Cleanup, the first or a later one, ends in a panic.
C14_CleanupIdempotent ==
    /\ im.cleanups >= 1 => ~im.subscribed
    /\ ~im.panicked

\* --------------------------------------------------------------------- C15
\* C15: when the underlying reader has delivered a complete line during a
\* GetInput call and no clear or exit event is pending, that line, its one
\* trailing newline removed, is what GetInput is about to return; and what
\* GetInput returned is that text with ok = true.
C15_CompleteLineReturned ==
    /\ (/\ input.pc = "select"
        /\ input.delivered # << >>
        /\ im.shouldClear = 0
        /\ im.shouldExit = 0)
       => input.inputChan = << TrimSuffix(input.delivered) >>
    /\ (input.pc = "busy" /\ input.delivered # << >>)
       => input.ret = [text |-> TrimSuffix(input.delivered), ok |-> TRUE]

\* --------------------------------------------------------------------- C16
\* C16: a step of GetInput that consumes a clear event does not return: the
\* call stays in acquisition with the prompt printed once more and a fresh
\* acquisition (empty channels, a reader task reading), whatever the
\* abandoned one held; and a step by which GetInput returns consumes no
\* clear event and is the return of a completed line, of a read error or
\* end of input, or of an exit event.
C16_Clear ==
    (input.pc = "select" /\ im'.shouldClear < im.shouldClear) =>
        /\ input'.pc = "select"
        /\ input'.ret = input.ret
        /\ input'.prompts = input.prompts + 1
        /\ input'.restarts = input.restarts + 1
        /\ input'.reading
        /\ input'.inputChan = << >>
        /\ input'.errorChan = 0

C16_Return ==
    (input.pc = "select" /\ input'.pc # "select") =>
        /\ im'.shouldClear = im.shouldClear
        /\ input'.prompts = input.prompts
        /\ \/ /\ input.inputChan # << >>
              /\ input'.ret = [text |-> Head(input.inputChan), ok |-> TRUE]
              /\ im' = im
           \/ /\ input.errorChan > 0
              /\ input'.ret = [text |-> << >>, ok |-> FALSE]
              /\ im' = im
           \/ /\ im.shouldExit > 0
              /\ im'.shouldExit = im.shouldExit - 1
              /\ input'.ret = [text |-> << >>, ok |-> FALSE]

C17_StopOnExitOrError ==
    /\ (input.pc = "select" /\ input.stopDue) =>
          (im.shouldExit > 0 \/ input.errorChan > 0)
    /\ input.stopDue => input.pc # "busy"
    /\ input.pc = "stopped" => input.ret = [text |-> << >>, ok |-> FALSE]

\* --------------------------------------------------------------------- C18
\* C18: interrupts that arrive while the engine is in its request/response
\* cycle change nothing in it. A step of the signal path leaves the
\* conversation, the files and the engine's position as they are, and a step
\* of the engine leaves the input manager as it is; and the cycle is the one
\* the engine runs without interrupts: every answered request added its
\* assistant turn, every turn with calls that is dispatched is followed by
\* its tool turns in call order, the engine at the head of its loop under
\* the ceiling can issue its request whatever events are pending, and it has
\* returned without error only after a turn without tool calls or at the
\* ceiling.
C18_SignalStep == (im' # im) => UNCHANGED <<stack, fs, dirs, varied, lastSub>>

C18_EngineStep == (stack' # stack) => UNCHANGED <<im, input>>

C18_Cycle ==
    \A k \in DOMAIN stack :
        LET e == stack[k]
            last == e.messages[Len(e.messages)]
        IN /\ e.calls = NumAssistant(e) + (IF e.err # NoError THEN 1 ELSE 0)
           /\ (e.pc = "returned" /\ e.err = NoError) =>
                 \/ last.role = "assistant" /\ last.tool_calls = << >>
                 \/ e.i = maxIterations /\ last.role = "tool"
           /\ (e.pc = "request" /\ e.i < maxIterations) => ENABLED RequestAnswered
           /\ \A n \in (Len(e.initial) + 1)..Len(e.messages) :
                LET cs == e.messages[n].tool_calls
                IN (/\ e.messages[n].role = "assistant"
                    /\ Len(cs) > 0
                    /\ ~(n = Len(e.messages) /\ e.pc = "dispatch")) =>
                      /\ n + Len(cs) <= Len(e.messages)
                      /\ \A j \in 1..Len(cs) :
                           /\ e.messages[n + j].role = "tool"
                           /\ e.messages[n + j].tool_call_id = cs[j].id

C18_InterruptLeavesCycle ==
    []C18_Cycle /\ [][C18_SignalStep /\ C18_EngineStep]_vars

C18_Witness ==
    /\ Top.pc = "dispatch"
    /\ Top.i >= 1
    /\ im.shouldClear = 1
    /\ im.shouldExit = 1
    /\ Len(im.log) = 2

\* --------------------------------------------------------------- C19, C20

\* The calls of the assistant turn the engine is dispatching or has
\* dispatched, and the tool turns they have got so far, in call order.
TurnCalls(e) == e.messages[Len(e.initial) + 1].tool_calls

TurnsSoFar(e) ==
    IF e.pc = "dispatch"
    THEN e.responses
    ELSE SubSeq(e.messages, Len(e.initial) + 2, Len(e.messages))

WrittenText == <<"File written successfully.">>

\* C19: a write_to_file(P, C) that returned its success text, then a
\* read_file(P) with no write to P between them: the read's tool turn bears
\* the read's id and its text is exactly C, whatever P held before.
C19_ReadReturnsWritten ==
    LET calls == TurnCalls(Top)
        turns == TurnsSoFar(Top)
    IN \A i \in 1..Len(turns) : \A j \in 1..Len(turns) :
         (/\ i < j
          /\ calls[i].name = "write_to_file"
          /\ turns[i].text = WrittenText
          /\ calls[j].name = "read_file"
          /\ calls[j].args.path = calls[i].args.path
          /\ \A k \in (i + 1)..(j - 1) :
               ~(calls[k].name = "write_to_file"
                 /\ calls[k].args.path = calls[i].args.path)) =>
            /\ turns[j].role = ChatMessageRoleTool
            /\ turns[j].tool_call_id = calls[j].id
            /\ turns[j].text = <<calls[i].args.content>>

\* An overwrite read back: "a.txt" held "old", was written and then read,
\* and the turns are in the conversation.
C19_Witness ==
    LET calls == TurnCalls(Top)
        turns == TurnsSoFar(Top)
    IN /\ Top.pc = "request"
       /\ Len(turns) = MaxCalls
       /\ calls[1].name = "write_to_file"
       /\ calls[1].args.path = "a.txt"
       /\ turns[1].text = WrittenText
       /\ calls[Len(turns)].name = "read_file"
       /\ calls[Len(turns)].args.path = "a.txt"
       /\ turns[Len(turns)].text = <<"new">>

\* C20: write_to_file answers a decodable call with one tool turn bearing
\* the call's id: the success text, and then the file holds the content and
\* its directory and every directory above it exist, or a text beginning
\* "Error creating directory: ", and then no file was written, or a text
\* beginning "Error writing file: ". A file that exists is in a directory
\* that exists, and so is a directory below another.
C20_WriteStep ==
    (/\ Dispatching
     /\ CurrentCall.name = "write_to_file"
     /\ stack' # stack) =>
       LET call == CurrentCall
           turn == Top'.responses[Len(Top'.responses)]
       IN /\ Len(Top'.responses) = Len(Top.responses) + 1
          /\ turn.role = ChatMessageRoleTool
          /\ turn.tool_call_id = call.id
          /\ \/ /\ turn.text = WrittenText
                /\ fs' = [fs EXCEPT ![call.args.path] = call.args.content]
                /\ MkdirAllCreates(Dir(call.args.path)) \subseteq dirs'
             \/ /\ turn.text[1] = "Error creating directory: "
                /\ fs' = fs
             \/ /\ turn.text[1] = "Error writing file: "
                /\ fs' = fs

C20_Tree ==
    /\ \A p \in FilePaths : fs[p] # Missing => Dir(p) \in dirs
    /\ "x/y" \in dirs => "x" \in dirs

C20_WriteCreatesParents == []C20_Tree /\ [][C20_WriteStep]_vars

\* The file two directories down, neither of which existed, written.
C20_Witness ==
    LET calls == TurnCalls(Top)
        turns == TurnsSoFar(Top)
    IN /\ Len(turns) >= 1
       /\ calls[1].name = "write_to_file"
       /\ calls[1].args.path = "x/y/c.txt"
       /\ turns[1].text = WrittenText
       /\ turns[1].tool_call_id = calls[1].id
       /\ fs["x/y/c.txt"] = calls[1].args.content
       /\ {"x", "x/y"} \subseteq dirs

\* --------------------------------------------------------------------- C21
\* C21: read_file on a path that cannot be read adds one tool turn that
\* begins "Error reading file: " and bears the call's id; the dispatch goes
\* on with the calls that are left and the engine keeps no error. Such a
\* turn, once it ends the conversation, leaves the engine at the head of its
\* loop, where under the ceiling the next request can be issued; the engine
\* has returned after it only at the ceiling or on a transport error.
IsReadError(msg) ==
    /\ msg.role = ChatMessageRoleTool
    /\ Len(msg.text) > 0
    /\ msg.text[1] = "Error reading file: "

Unreadable(toolCall) ==
    toolCall.args.path \notin FilePaths \/ fs[toolCall.args.path] = Missing

C21_ReadStep ==
    (/\ Dispatching
     /\ IsDispatched(CurrentCall)
     /\ CurrentCall.name = "read_file"
     /\ ~UnmarshalFails(CurrentCall.args)
     /\ Unreadable(CurrentCall)
     /\ stack' # stack) =>
       /\ Len(stack') = Len(stack)
       /\ Len(Top'.responses) = Len(Top.responses) + 1
       /\ IsReadError(Top'.responses[Len(Top'.responses)])
       /\ Top'.responses[Len(Top'.responses)].tool_call_id = CurrentCall.id
       /\ Top'.pc = "dispatch"
       /\ Top'.pending = Tail(Top.pending)
       /\ Top'.err = NoError
       /\ Top'.messages = Top.messages

C21_Proceeds ==
    \A k \in DOMAIN stack :
        LET e == stack[k]
        IN /\ (\E n \in DOMAIN e.responses : IsReadError(e.responses[n])) =>
                e.pc = "dispatch" /\ e.err = NoError
           /\ IsReadError(e.messages[Len(e.messages)]) =>
                /\ e.pc \in {"request", "returned"}
                /\ e.pc = "returned" => (e.err # NoError \/ e.i = maxIterations)
                /\ (e.pc = "request" /\ k = Len(stack) /\ e.i < maxIterations) =>
                      ENABLED RequestAnswered

C21_ReadErrorIsATurn == []C21_Proceeds /\ [][C21_ReadStep]_vars

\* The error turn in the conversation, followed by the next assistant turn.
C21_Witness ==
    \E n \in 1..(Len(Top.messages) - 1) :
        /\ IsReadError(Top.messages[n])
        /\ Top.messages[n].tool_call_id = "1"
        /\ Top.messages[n + 1].role = ChatMessageRoleAssistant

\* --------------------------------------------------------------------- C22
\* C22: a transport error while a user line is handled is reported and ends
\* the handling of that line only: once the driver has dealt with the failed
\* engine, the error has been reported and Run has not returned with it, so
\* that later lines can still be read.
C22_ErrorEndsTurnOnly ==
    (Top.pc = "returned" /\ Top.err # NoError /\ run.pc # "engine") =>
        /\ run.reported = 1
        /\ run.result # "error"
        /\ run.pc # "returned"

\* --------------------------------------------------------------------- C23
\* C23: a nested engine runs inside the dispatch of the run_agent call that
\* started it. While it exists every engine below it stands still, in its
\* dispatch, at that run_agent call and without error: a step that keeps or
\* adds a nested engine changes no engine below the top one, a nested engine
\* starts fresh on top of an unchanged parent, and a nested engine goes away
\* only when it has returned, in the very step that gives the parent the
\* tool turn of the call; the parent's turns are appended after that.
C23_ParentsWait ==
    \A k \in 1..(Len(stack) - 1) :
        /\ stack[k].pc = "dispatch"
        /\ stack[k].pending # << >>
        /\ Head(stack[k].pending).name = "run_agent"
        /\ stack[k].err = NoError

C23_Step ==
    /\ Len(stack') >= Len(stack) =>
          \A k \in 1..(Len(stack) - 1) : stack'[k] = stack[k]
    /\ Len(stack') > Len(stack) =>
          /\ Len(stack') = Len(stack) + 1
          /\ stack'[Len(stack)] = Top
          /\ Top'.pc = "request" /\ Top'.calls = 0 /\ Top'.i = 0
    /\ Len(stack') < Len(stack) =>
          /\ Len(stack') = Len(stack) - 1
          /\ Top.pc = "returned"
          /\ \A k \in 1..(Len(stack') - 1) : stack'[k] = stack[k]
          /\ LET parent == stack[Len(stack) - 1]
             IN /\ Top'.messages = parent.messages
                /\ Top'.pending = Tail(parent.pending)
                /\ Len(Top'.responses) = Len(parent.responses) + 1
                /\ Top'.responses[Len(Top'.responses)].tool_call_id
                       = Head(parent.pending).id
                /\ Top'.calls = parent.calls /\ Top'.i = parent.i

C23_NestedRunsInsideDispatch == []C23_ParentsWait /\ [][C23_Step]_vars

\* A nested engine that has made requests and dispatched calls has returned;
\* its parent holds the run_agent tool turn and has not moved otherwise.
C23_Witness ==
    /\ lastSub.finished
    /\ lastSub.engine.i >= 2
    /\ lastSub.engine.calls >= 3
    /\ Len(stack) = lastSub.depth
    /\ Top.pc = "dispatch"
    /\ Top.calls = 1
    /\ Len(Top.responses) = 1
    /\ Top.responses[1].tool_call_id = lastSub.call.id

\* --------------------------------------------------------------------- C24
\* C24: every engine counts its own iterations only. An engine's counter is
\* the number of its own assistant turns with tool calls whose tool turns
\* are appended, never more than the ceiling; a nested engine starts at 0
\* whatever its parent's counter is; the counter of an engine changes only
\* by its own end of iteration, by one; and an engine at the head of its
\* loop under the ceiling can issue its request.
OwnIterations(e) ==
    Cardinality({ n \in (Len(e.initial) + 1)..Len(e.messages) :
                    /\ e.messages[n].role = ChatMessageRoleAssistant
                    /\ e.messages[n].tool_calls # << >> })
    - (IF e.pc = "dispatch" THEN 1 ELSE 0)

C24_OwnCounter ==
    /\ \A k \in DOMAIN stack :
         /\ stack[k].i = OwnIterations(stack[k])
         /\ stack[k].i <= maxIterations
    /\ (Top.pc = "request" /\ Top.i < maxIterations) => ENABLED RequestAnswered

C24_Step ==
    /\ Len(stack') > Len(stack) => Top'.i = 0
    /\ \A k \in DOMAIN stack :
         (k \in DOMAIN stack' /\ stack'[k].i # stack[k].i) =>
            /\ k = Len(stack)
            /\ Len(stack') = Len(stack)
            /\ stack'[k].i = stack[k].i + 1
            /\ stack[k].pc = "dispatch"

C24_SeparateCounters == []C24_OwnCounter /\ [][C24_Step]_vars

\* The parent delegated in its last iteration but one and the nested engine
\* has used all of its own ten.
C24_Witness ==
    /\ Len(stack) = 2
    /\ stack[1].i = maxIterations - 1
    /\ Top.i = maxIterations
    /\ Top.pc = "returned"
    /\ Top.err = NoError

\* --------------------------------------------------------------------- C25
\* C25: an engine issues a request only from the head of its loop, with no
\* call of the previous response left to dispatch and no tool turn left to
\* append, and one request per iteration: at the head of the loop it has made
\* as many requests as it has ended iterations, in its dispatch one more, and
\* the count goes up by one at a time.
C25_Counts ==
    \A k \in DOMAIN stack :
        LET e == stack[k]
        IN /\ e.pc = "request" =>
                e.calls = e.i /\ e.pending = << >> /\ e.responses = << >>
           /\ e.pc = "dispatch" => e.calls = e.i + 1
           /\ e.pc = "returned" => e.calls \in {e.i, e.i + 1}

C25_Step ==
    \A k \in DOMAIN stack :
        (k \in DOMAIN stack' /\ stack'[k].calls # stack[k].calls) =>
            /\ stack[k].pc = "request"
            /\ stack[k].pending = << >>
            /\ stack[k].responses = << >>
            /\ stack'[k].calls = stack[k].calls + 1
            /\ stack'[k].pc # "request"
            /\ stack'[k].i = stack[k].i

C25_OneRequestPerIteration == []C25_Counts /\ [][C25_Step]_vars

\* The third request of an engine, made after two iterations were ended.
C25_Witness ==
    /\ Top.pc = "dispatch"
    /\ Top.calls = 3
    /\ Top.i = 2
    /\ Top.pending # << >>

\* --------------------------------------------------------------------- C26
\* C26: the conversation only grows at its end. Every step of the engine and
\* of the driver leaves the turns it had where they were and as they were;
\* a request carries the whole conversation as it then is, so what a request
\* carries begins with what the request before it carried.
C26_Sent ==
    /\ Len(stack) = 1
    /\ IsPrefix(Top.sent, Top.messages)

C26_Step ==
    /\ IsPrefix(Top.messages, Top'.messages)
    /\ (Top.pc = "request" /\ Top'.calls = Top.calls + 1) =>
          /\ Top'.sent = Top.messages
          /\ IsPrefix(Top.sent, Top'.sent)
    /\ ~(Top.pc = "request" /\ Top'.calls = Top.calls + 1) => Top'.sent = Top.sent

C26_AppendOnly == []C26_Sent /\ [][C26_Step]_vars

\* The second line's first request, carrying the first line's conversation
\* and more, answered.
C26_Witness ==
    /\ run.lines = 2
    /\ Top.calls = 1
    /\ Len(Top.sent) >= 5
    /\ Top.sent[Len(Top.sent)].role = ChatMessageRoleUser
    /\ Len(Top.messages) = Len(Top.sent) + 1

\* --------------------------------------------------------------------- C27
\* C27: the first interrupt signal an InputManager receives is classified
\* clear, however soon after construction it comes.
C27_FirstIsClear ==
    \A k \in 1..Len(im.log) :
        (im.log[k].real /\ im.log[k].first) => k = 1 /\ im.log[k].class = "clear"

\* The first signal, sent before any time has passed, emitted as clear.
C27_Witness ==
    /\ Len(im.log) = 1
    /\ im.log[1].real /\ im.log[1].first
    /\ im.log[1].class = "clear"
    /\ im.sinceLastCtrlC = 0
    /\ im.shouldClear = 1

\* --------------------------------------------------------------------- C28
\* C28: exiting is final. The listener classifies at most one signal as exit,
\* and nothing after it; once it has emitted the exit event it stays
\* finished, classifies nothing more and emits no clear or exit event,
\* whatever signals arrive.
C28_OneExit ==
    /\ \A k \in 1..Len(im.log) : im.log[k].class = "exit" => k = Len(im.log)
    /\ im.shouldExit <= 1
    /\ im.listener = "done" =>
          Len(im.log) > 0 /\ im.log[Len(im.log)].class = "exit"

C28_Step ==
    im.listener = "done" =>
       /\ im'.listener = "done"
       /\ im'.log = im.log
       /\ im'.shouldClear <= im.shouldClear
       /\ im'.shouldExit <= im.shouldExit

C28_ExitIsTerminal == []C28_OneExit /\ [][C28_Step]_vars

\* The listener has finished and a signal that came later lies unreceived.
C28_Witness ==
    /\ im.listener = "done"
    /\ im.sigChan # << >>
    /\ im.sent = MaxSignals
    /\ Len(im.log) = 2

\* --------------------------------------------------------------------- C30
\* C30: the interrupt state belongs to the listener. The time of the last
\* clear changes only when the listener classifies a signal as clear (and
\* ages as time passes); no step of GetInput, of its reader tasks or of
\* Cleanup changes it, and whether the foreground can take the input, error,
\* clear or exit case, call GetInput or call Cleanup depends on the channels
\* and on its own position alone.
C30_Step ==
    /\ im'.sinceLastCtrlC # im.sinceLastCtrlC =>
          \/ /\ im.listener = "recv"
             /\ im'.listener = "sendClear"
             /\ im'.sinceLastCtrlC = 0
             /\ input' = input
          \/ /\ im'.sinceLastCtrlC = Elapse(im.sinceLastCtrlC)
             /\ im'.listener = im.listener
             /\ im'.log = im.log
             /\ input' = input
    /\ (input'.pc # input.pc \/ input'.reading # input.reading
          \/ im'.cleanups # im.cleanups) =>
          im'.sinceLastCtrlC = im.sinceLastCtrlC

C30_ForegroundByChannels ==
    /\ ENABLED SelectClear <=>
          (~im.panicked /\ input.pc = "select" /\ im.shouldClear > 0)
    /\ ENABLED SelectExit <=>
          (~im.panicked /\ input.pc = "select" /\ im.shouldExit > 0)
    /\ ENABLED SelectInput <=>
          (~im.panicked /\ input.pc = "select" /\ input.inputChan # << >>)
    /\ ENABLED SelectError <=>
          (~im.panicked /\ input.pc = "select" /\ input.errorChan > 0)
    /\ ENABLED CallGetInput <=>
          (~im.panicked /\ input.pc = "busy" /\ im.cleanups = 0)
    /\ ENABLED Cleanup <=>
          (~im.panicked /\ input.pc \in {"busy", "stopped"})

C30_InterruptStateIsTheListeners ==
    []C30_ForegroundByChannels /\ [][C30_Step]_vars

\* GetInput has taken a clear event and started again, and Cleanup was
\* called later, within the window of that clear.
C30_Witness ==
    /\ im.cleanups = 1
    /\ im.sinceLastCtrlC < DebounceWindow
    /\ input.prompts >= 1
    /\ Len(im.log) = 1

\* --------------------------------------------------------------------- C29
\* C29: once GetInput has reported stop, Run makes no request and adds no
\* turn; it can leave its loop, and when it has, it has returned nil, no
\* error was reported, Cleanup was called exactly once without a panic and
\* the signal subscription is released; nothing of the driver moves after.
C29_Stopped ==
    /\ input.pc = "stopped" =>
          \/ run.pc = "waiting" /\ im.cleanups = 0 /\ ENABLED RunStops
          \/ /\ run.pc = "returned"
             /\ run.result = "nil"
             /\ run.reported = 0
             /\ im.cleanups = 1
             /\ ~im.subscribed
             /\ ~im.panicked
    /\ run.result = "nil" => input.pc = "stopped"

C29_Step ==
    input.pc = "stopped" =>
       /\ stack' = stack
       /\ input'.pc = "stopped"
       /\ run' # run =>
             run.pc = "waiting" /\ run'.pc = "returned" /\ run'.result = "nil"
       /\ im'.cleanups # im.cleanups =>
             run.pc = "waiting" /\ im'.cleanups = 1

C29_StopEndsRun == []C29_Stopped /\ [][C29_Step]_vars

\* Run has returned nil after an exit event, a line having been answered
\* before.
C29_Witness ==
    /\ run.pc = "returned"
    /\ run.result = "nil"
    /\ run.lines >= 1
    /\ Top.calls >= 1
    /\ im.listener = "done"
    /\ im.shouldExit = 0
    /\ input.errorChan = 0
    /\ im.cleanups = 1

\* --------------------------------------------------------------------- C31
\* C31: a line that is empty or white space only is skipped. The driver's
\* step on such a line leaves the conversation and the engine as they are,
\* hands no line to the engine and goes back to the prompt, from where it can
\* call GetInput again; the engine is started, and a request made, only on a
\* line that is not blank, which then is the last turn of the conversation.
C31_Step ==
    (run.pc = "waiting" /\ input.pc = "busy" /\ run' # run) =>
       IF \A k \in DOMAIN input.ret.text : input.ret.text[k] \in {" ", "\t", "\r", "\n"}
       THEN /\ stack' = stack
            /\ run'.pc = "prompt"
            /\ run'.lines = run.lines
            /\ input' = input
       ELSE /\ run'.pc = "engine"
            /\ Top'.messages = Append(Top.messages, UserTurn(input.ret.text))
            /\ Top'.pc = "request"

C31_GoesOn ==
    /\ (run.pc = "prompt" /\ run.lines < MaxLines) => ENABLED RunCallsGetInput
    /\ \A n \in DOMAIN Top.messages :
         Top.messages[n].role = ChatMessageRoleUser =>
            Top.messages[n].text \notin {<< >>, <<" ">>, <<" ", "\t">>}

C31_BlankLineSkipped == []C31_GoesOn /\ [][C31_Step]_vars

\* A line of white space skipped after an answered line: the driver is back
\* at the prompt, the conversation where the answer left it.
C31_Witness ==
    /\ run.pc = "prompt"
    /\ input.ret.text = <<" ", "\t">>
    /\ run.lines = 1
    /\ Top.pc = "returned"
    /\ Top.calls >= 1
    /\ Top.messages[Len(Top.messages)].role = ChatMessageRoleAssistant

\* --------------------------------------------------------------------- C32
\* C32: no completed line is taken by a reader task left over from before a
\* clear; a line the underlying reader completed after a restart is the one
\* the pending GetInput call holds ready to return.
C32_NoLineLost ==
    /\ input.lost = 0
    /\ (input.pc = "select" /\ input.restarts > 0 /\ input.delivered # << >>) =>
          input.inputChan = << TrimSuffix(input.delivered) >>

\* --------------------------------------------------------------------- C33
\* C33: at most one reader task is in ReadString on the underlying reader at
\* any time, the one of the GetInput frame in progress or one left behind.
ReaderTasks == (IF input.reading THEN 1 ELSE 0) + input.orphans

C33_OneReaderTask == ReaderTasks <= 1

\* --------------------------------------------------------------------- C34
\* C34: the listener emits events for interrupts only: everything it
\* classifies is an interrupt signal delivered to the manager, and it has
\* never emitted more events than interrupts were delivered, Cleanup or not.
EventsEmitted ==
    Len(im.log) - (IF im.listener \in {"sendClear", "sendExit"} THEN 1 ELSE 0)

C34_EventsOnlyForInterrupts ==
    /\ \A k \in 1..Len(im.log) : im.log[k].real
    /\ EventsEmitted <= im.delivered

\* --------------------------------------------------------------------- C35
\* C35: with the listener scheduled, an interrupt delivered to the manager
\* is in the end classified, however busy the foreground is: a signal waiting
\* in sigChan is received by the listener before the engine's turn is over,
\* unless the listener has finished with an exit event.
TurnOver == Len(stack) = 1 /\ Top.pc = "returned"

C35_EveryInterruptClassified ==
    [](im.sigChan # << >> =>
          <>(im.sigChan = << >> \/ im.listener = "done" \/ TurnOver))

\* --------------------------------------------------------------------- C36
\* C36: a GetInput call consumes only events of its own time: the clear or
\* exit event it takes from shouldClear or shouldExit was not in the channel
\* already when the call was entered.
C36_Step ==
    /\ (input.pc = "select" /\ im'.shouldClear < im.shouldClear) => ~input.staleClear
    /\ (input.pc = "select" /\ im'.shouldExit < im.shouldExit) => ~input.staleExit

C36_EventsOfTheSameCall == [][C36_Step]_vars

\* --------------------------------------------------------------------- C37
\* C37: the sequence a transport request carries ends with a user turn or a
\* tool turn, never with an assistant turn, in every engine, nested or not.
EndsWithUserOrTool(messages) ==
    messages # << >> =>
        messages[Len(messages)].role \in {ChatMessageRoleUser, ChatMessageRoleTool}

C37_RequestEndsWithUserOrTool ==
    \A d \in 1..Len(stack) : EndsWithUserOrTool(stack[d].sent)

\* --------------------------------------------------------------------- C38
\* C38: an engine that has returned without error hands back a sequence that
\* ends with an assistant turn without tool calls, or it has made exactly
\* maxIterations requests and the sequence ends with the tool turns that
\* answer the calls of the last assistant turn, one for each call in order.
LastAssistant(messages) ==
    LET at == {k \in 1..Len(messages) : messages[k].role = ChatMessageRoleAssistant}
    IN IF at = {} THEN 0 ELSE CHOOSE k \in at : \A j \in at : j <= k

EndsWithFinalAnswer(messages) ==
    /\ messages # << >>
    /\ messages[Len(messages)].role = ChatMessageRoleAssistant
    /\ Len(messages[Len(messages)].tool_calls) = 0

EndsWithAnsweredCalls(messages) ==
    LET a == LastAssistant(messages)
    IN /\ a > 0
       /\ Len(messages[a].tool_calls) > 0
       /\ Len(messages) - a = Len(messages[a].tool_calls)
       /\ \A k \in 1..(Len(messages) - a) :
             /\ messages[a + k].role = ChatMessageRoleTool
             /\ messages[a + k].tool_call_id = messages[a].tool_calls[k].id

C38_ReturnShape ==
    \A d \in 1..Len(stack) :
        (stack[d].pc = "returned" /\ stack[d].err = NoError) =>
            \/ EndsWithFinalAnswer(stack[d].messages)
            \/ /\ stack[d].calls = maxIterations
               /\ EndsWithAnsweredCalls(stack[d].messages)

====
